---- MODULE Spec2Model ----
(***************************************************************************)
(* Model of the AI SEO Tools dashboard: the App component (global state,   *)
(* localStorage persistence of the webhook addresses, tool switching) and  *)
(* the submit handlers of the four tool components.                        *)
(*                                                                         *)
(* JavaScript values are tagged records [t |-> tag, v |-> payload].        *)
(* Strings are sequences of pieces (single characters for payload text).   *)
(***************************************************************************)
EXTENDS Integers, Sequences, FiniteSets, TLC

VARIABLES
    appState,    \* App: useState<AppState>, one record per tool
    activeTool,  \* App: useState<Tool>
    storage,     \* localStorage item 'n8n-seo-tool-webhooks'
    inflight,    \* per tool, the handleSubmit invocations suspended at an await
    issued,      \* history: number of fetch() calls made per tool
    accepted,    \* history: number of submits that passed the handler's guard
    delivered,   \* history: what the network delivered to the tool's last submit
    entered,     \* history: last webhook value typed by the user per tool
    edits,       \* number of input changes so far (bounded)
    boots,       \* number of application restarts so far (bounded)
    lastSuccess, \* history, where recorded: result of the tool's latest successful submit since start
    calls,       \* number of direct calls of a submit handler so far (bounded)
    blog,        \* BlogPostWriterTool's useState values: blogContent, blogStyles, isRtl, copied
    clip,        \* clipboard writes not yet settled, pending reset timers, copy clicks so far
    markdown,    \* the text handed to a call of parseMarkdown
    html         \* what that call returned (undefined before it returns)

vars == <<appState, activeTool, storage, inflight, issued, accepted,
          delivered, entered, edits, boots, lastSuccess, calls, blog, clip,
          markdown, html>>

---------------------------------------------------------------------------
(* Bounds *)

MaxEdits == 2
MaxPosts == 2
MaxRestarts == 1
MaxCalls == 1
MaxCopies == 1
MaxLen == 6

---------------------------------------------------------------------------
(* JavaScript values *)

Undefined == [t |-> "undefined"]
JNull == [t |-> "null"]
JNum(n) == [t |-> "num", v |-> n]
JStr(s) == [t |-> "str", v |-> s]
JArr(s) == [t |-> "arr", v |-> s]
JObj(f) == [t |-> "obj", v |-> f]

EmptyStr == JStr(<<>>)

\* ToBoolean(v), as used by !v, v ? a : b and v || d
Truthy(v) ==
    CASE v.t = "undefined" -> FALSE
      [] v.t = "null" -> FALSE
      [] v.t = "num" -> v.v # 0
      [] v.t = "str" -> v.v # <<>>
      [] OTHER -> TRUE

\* v?.[0]
Index0(v) ==
    CASE v.t = "arr" -> IF Len(v.v) > 0 THEN v.v[1] ELSE Undefined
      [] v.t = "obj" -> IF "0" \in DOMAIN v.v THEN v.v["0"] ELSE Undefined
      [] v.t = "str" -> IF Len(v.v) > 0 THEN JStr(<<v.v[1]>>) ELSE Undefined
      [] OTHER -> Undefined

\* v?.k for a property name k that is neither an index nor built in
OptProp(v, k) ==
    IF v.t = "obj" /\ k \in DOMAIN v.v THEN v.v[k] ELSE Undefined

\* v.k throws a TypeError exactly when v is null or undefined
CanRead(v) == v.t \notin {"null", "undefined"}

IsSpace(c) == c \in {" ", "\n", "\t"}

RECURSIVE TrimStart(_)
TrimStart(s) ==
    IF s # <<>> /\ IsSpace(Head(s)) THEN TrimStart(Tail(s)) ELSE s

RECURSIVE TrimEnd(_)
TrimEnd(s) ==
    IF s # <<>> /\ IsSpace(s[Len(s)]) THEN TrimEnd(SubSeq(s, 1, Len(s) - 1)) ELSE s

\* String.prototype.trim
Trim(s) == TrimEnd(TrimStart(s))

\* Values thrown or rejected: Error objects carry a message
ErrorOf(msg) == [isError |-> TRUE, message |-> msg]
NonError == [isError |-> FALSE, message |-> <<>>]

---------------------------------------------------------------------------
(* Tools and their records *)

OnPageSEO == "On-Page SEO"
KeywordGenerator == "Keyword Generator"
BlogPostWriter == "Blog Post Writer"
RankTracker == "Rank Tracker"

Tool == {OnPageSEO, KeywordGenerator, BlogPostWriter, RankTracker}

\* The query fields of each tool's state record
QueryFields(tool) ==
    CASE tool = OnPageSEO -> {"url"}
      [] tool = KeywordGenerator -> {"topic"}
      [] tool = BlogPostWriter -> {"topic"}
      [] tool = RankTracker -> {"domain", "keyword"}

\* One tool's record as the App initializer builds it for a given webhook
ToolRecord(tool, webhook) ==
    [k \in QueryFields(tool) \cup {"webhook", "result", "isLoading", "error", "rawResponse"} |->
        CASE k = "webhook" -> webhook
          [] k = "result" -> JNull
          [] k = "isLoading" -> FALSE
          [] k = "error" -> JNull
          [] k = "rawResponse" -> JNull
          [] OTHER -> EmptyStr]

---------------------------------------------------------------------------
(* localStorage and JSON text *)

\* getItem returns null when the key is absent
NoItem == [kind |-> "none"]
\* a text JSON.parse rejects
Garbage == [kind |-> "garbage"]
\* the JSON text of value v
JsonText(v) == [kind |-> "json", val |-> v]

\* savedWebhooks ? ... : ...
TextTruthy(text) == text.kind \in {"garbage", "json"}

\* JSON.parse(text): throws a SyntaxError unless the text is JSON
ParseThrows(text) == text.kind # "json"
Parse(text) == text.val

\* JSON.stringify(v): own enumerable properties of objects, elements of arrays
Stringify(v) ==
    IF v.t = "arr" THEN JsonText(JArr(v.v)) ELSE JsonText([t |-> v.t, v |-> v.v])

\* webhooks[tool] = value throws a TypeError on null and (module code being
\* strict) on primitives
AssignThrows(obj) == obj.t \notin {"obj", "arr"}

\* obj after obj[key] = value; a named property of an array is not an element
Assign(obj, key, value) ==
    IF obj.t = "obj"
    THEN JObj([k \in DOMAIN obj.v \cup {key} |-> IF k = key THEN value ELSE obj.v[k]])
    ELSE [t |-> "arr", v |-> obj.v, named |-> key :> value]

\* Variant: no default for a missing entry
WebhookOrEmpty_NoDefault(v) == v

\* initialWebhooks[tool] || ''
WebhookOrEmpty(v) == IF Truthy(v) THEN v ELSE EmptyStr

\* initialWebhooks[tool] throws a TypeError when initialWebhooks is null
LoadThrows(text) ==
    TextTruthy(text) /\ (ParseThrows(text) \/ ~CanRead(Parse(text)))

\* The useState initializer of appState
InitialState(text) ==
    IF LoadThrows(text)
    THEN [tool \in Tool |-> ToolRecord(tool, EmptyStr)]
    ELSE LET initialWebhooks == IF TextTruthy(text) THEN Parse(text) ELSE JObj(<<>>)
         IN  [tool \in Tool |->
                ToolRecord(tool, WebhookOrEmpty(OptProp(initialWebhooks, tool)))]

\* Variant: every update is written to the store; an update without a webhook
\* assigns undefined, which JSON.stringify leaves out
SaveWebhook_Always(text, tool, newState) ==
    IF TextTruthy(text) /\ ParseThrows(text) THEN text
    ELSE LET webhooks == IF TextTruthy(text) THEN Parse(text) ELSE JObj(<<>>)
         IN  IF AssignThrows(webhooks) THEN text
             ELSE IF "webhook" \in DOMAIN newState
             THEN Stringify(Assign(webhooks, tool, newState.webhook))
             ELSE IF webhooks.t = "obj"
             THEN JsonText(JObj([k \in DOMAIN webhooks.v \ {tool} |-> webhooks.v[k]]))
             ELSE Stringify(webhooks)

\* The localStorage part of updateToolState
SaveWebhook(text, tool, newState) ==
    IF "webhook" \notin DOMAIN newState THEN text
    ELSE IF TextTruthy(text) /\ ParseThrows(text) THEN text
    ELSE LET webhooks == IF TextTruthy(text) THEN Parse(text) ELSE JObj(<<>>)
         IN  IF AssignThrows(webhooks) THEN text
             ELSE Stringify(Assign(webhooks, tool, newState.webhook))

\* { ...prevState[tool], ...newState }
Merge(prev, newState) ==
    [k \in DOMAIN prev \cup DOMAIN newState |->
        IF k \in DOMAIN newState THEN newState[k] ELSE prev[k]]

\* Variant: the patch is merged into every tool's record
SetToolState_AllTools(state, tool, newState) ==
    [t \in DOMAIN state |-> Merge(state[t], newState)]

\* The setAppState part of updateToolState
SetToolState(state, tool, newState) ==
    [state EXCEPT ![tool] = Merge(state[tool], newState)]

---------------------------------------------------------------------------
(* The submit handlers *)

\* The fields a handler requires to be non-empty
Required(tool) == {"webhook"} \cup QueryFields(tool)

\* if (!webhook || !topic) and its variants
GuardFails(rec, tool) == \E k \in Required(tool) : ~Truthy(rec[k])

RequiredMessage(tool) ==
    CASE tool = OnPageSEO -> JStr(<<"Webhook URL and page URL are required.">>)
      [] tool = KeywordGenerator -> JStr(<<"Webhook URL and topic are required.">>)
      [] tool = BlogPostWriter -> JStr(<<"Webhook URL and topic are required.">>)
      [] tool = RankTracker -> JStr(<<"Webhook URL, domain, and keyword are required.">>)

\* Variant: the guard also clears the previous result
RequiredPatch_ClearsResult(tool) == [error |-> RequiredMessage(tool), result |-> JNull]

\* updateState({ error: '... required.' }) of the guard
RequiredPatch(tool) == [error |-> RequiredMessage(tool)]

FailPrefix(tool) ==
    CASE tool = OnPageSEO -> "Failed to fetch analysis: "
      [] tool = KeywordGenerator -> "Failed to generate keywords: "
      [] tool = BlogPostWriter -> "Failed to write blog post: "
      [] tool = RankTracker -> "Failed to check rank: "

\* e instanceof Error ? e.message : 'An unknown error occurred.'
CatchMessage(e) == IF e.isError THEN e.message ELSE <<"An unknown error occurred.">>

\* new Error(`HTTP error! Status: ${response.status}`)
HttpError(status) == ErrorOf(<<"HTTP error! Status: ", ToString(status)>>)

\* response.ok
ResponseOk(status) == status >= 200 /\ status <= 299

Ok(r) == [ok |-> TRUE, result |-> r, thrown |-> NonError]
Throw(e) == [ok |-> FALSE, result |-> JNull, thrown |-> e]

\* KeywordGeneratorTool: the checks between response.json() and the result
ValidateKeywords(data) ==
    LET keywordsData == OptProp(Index0(data), "keywords")
    IN  IF keywordsData.t # "arr"
        THEN Throw(ErrorOf(<<"Invalid data structure in webhook response.">>))
        ELSE IF Len(keywordsData.v) = 0 THEN Ok(keywordsData)
        ELSE IF ~CanRead(keywordsData.v[1])
        THEN Throw(ErrorOf(<<"Cannot read properties of null">>))
        ELSE IF \/ OptProp(keywordsData.v[1], "keyword").t = "undefined"
                \/ OptProp(keywordsData.v[1], "intent").t = "undefined"
        THEN Throw(ErrorOf(<<"Keyword objects in the response are missing required properties.">>))
        ELSE Ok(keywordsData)

\* typeof s !== 'string' || s.trim() === ''
NotText(s) == s.t # "str" \/ Trim(s.v) = <<>>

\* Variant: the trimmed text is stored
ValidateHtml_Trimmed(data) ==
    LET htmlResult == OptProp(Index0(data), "blog_post_html")
    IN  IF NotText(htmlResult)
        THEN Throw(ErrorOf(<<"Invalid or empty content in webhook response.">>))
        ELSE Ok(JStr(Trim(htmlResult.v)))

\* BlogPostWriterTool and OnPageSeoTool: both read data?.[0]?.blog_post_html
ValidateHtml(data) ==
    LET htmlResult == OptProp(Index0(data), "blog_post_html")
    IN  IF NotText(htmlResult)
        THEN Throw(ErrorOf(<<"Invalid or empty content in webhook response.">>))
        ELSE Ok(htmlResult)

\* rank === 0 ? sentinel : rank
RankOr(rank, sentinel) == IF rank = JNum(0) THEN JStr(<<sentinel>>) ELSE rank

\* RankTrackerTool: validation and mapping to RankTrackerResult
ValidateRanks(data) ==
    LET responseData == Index0(data)
    IN  IF \/ ~Truthy(responseData)
           \/ OptProp(responseData, "current_rank").t = "undefined"
           \/ OptProp(responseData, "previous_rank").t = "undefined"
        THEN Throw(ErrorOf(<<"Invalid data structure in webhook response.">>))
        ELSE Ok(JObj(("Current Rank" :> RankOr(OptProp(responseData, "current_rank"), "Not Found"))
                  @@ ("Previous Rank" :> RankOr(OptProp(responseData, "previous_rank"), "N/A"))))

Validate(tool, data) ==
    CASE tool = KeywordGenerator -> ValidateKeywords(data)
      [] tool = RankTracker -> ValidateRanks(data)
      [] OTHER -> ValidateHtml(data)

\* updateToolState(tool, newState) applied to the pair of App state and storage
Update(st, tool, newState) ==
    [app |-> SetToolState(st.app, tool, newState),
     store |-> SaveWebhook(st.store, tool, newState)]

\* Variant: the previous result survives a new submit
StartPatch_KeepsResult == [isLoading |-> TRUE, error |-> JNull, rawResponse |-> JNull]

\* Variant: the previous error survives a new submit
StartPatch_KeepsError == [isLoading |-> TRUE, result |-> JNull, rawResponse |-> JNull]

\* updateState({ isLoading: true, error: null, result: null, rawResponse: null })
StartPatch == [isLoading |-> TRUE, error |-> JNull, result |-> JNull, rawResponse |-> JNull]

\* Variant: an empty catch block
CatchBlock_Swallows(st, tool, e) == st

\* catch (e) { updateState({ error }) }
CatchBlock(st, tool, e) ==
    Update(st, tool, [error |-> JStr(<<FailPrefix(tool)>> \o CatchMessage(e))])

\* Variant: no finally block
FinallyBlock_Missing(st, tool) == st

\* finally { updateState({ isLoading: false }) }
FinallyBlock(st, tool) == Update(st, tool, [isLoading |-> FALSE])

\* Variant: rawResponse is stored only after the shape was accepted
OnData_RawOnSuccess(st, tool, data) ==
    LET v == Validate(tool, data)
    IN  IF v.ok
        THEN FinallyBlock(Update(Update(st, tool, [rawResponse |-> data]), tool,
                                 [result |-> v.result]), tool)
        ELSE FinallyBlock(CatchBlock(st, tool, v.thrown), tool)

\* The handler from the resolution of response.json() to its end
OnData(st, tool, data) ==
    LET st1 == Update(st, tool, [rawResponse |-> data])
        v == Validate(tool, data)
    IN  IF v.ok
        THEN FinallyBlock(Update(st1, tool, [result |-> v.result]), tool)
        ELSE FinallyBlock(CatchBlock(st1, tool, v.thrown), tool)

\* The handler from a rejection or a thrown error inside try to its end
OnThrow(st, tool, e) == FinallyBlock(CatchBlock(st, tool, e), tool)

\* Variant: the catch block retries the request
RefetchOnFailure_Retry == TRUE

\* Whether the catch and finally blocks call fetch again: they do not
RefetchOnFailure == FALSE

---------------------------------------------------------------------------
(* The Blog Post Writer's local state *)

\* An HTML text is a sequence of pieces; the tags the style regular
\* expressions look for are pieces of their own
StyleOpen == "<style>"
StyleClose == "</style>"

\* The first position at or after from where the piece p stands, 0 if none
RECURSIVE IndexFrom(_, _, _)
IndexFrom(s, p, from) ==
    IF from > Len(s) THEN 0
    ELSE IF s[from] = p THEN from
    ELSE IndexFrom(s, p, from + 1)

\* Where the first match of /<style>([\s\S]*?)<\/style>/ ends, 0 if none
StyleEnd(s) ==
    LET i == IndexFrom(s, StyleOpen, 1)
    IN  IF i = 0 THEN 0 ELSE IndexFrom(s, StyleClose, i + 1)

\* result.match(styleRegex) with the g flag: the matches, from left to right
\* (the empty sequence where match returns null)
RECURSIVE StyleMatch(_)
StyleMatch(s) ==
    IF StyleEnd(s) = 0 THEN <<>>
    ELSE <<SubSeq(s, IndexFrom(s, StyleOpen, 1), StyleEnd(s))>>
             \o StyleMatch(SubSeq(s, StyleEnd(s) + 1, Len(s)))

\* result.replace(styleRegex, '')
RECURSIVE ReplaceStyles(_)
ReplaceStyles(s) ==
    IF StyleEnd(s) = 0 THEN s
    ELSE SubSeq(s, 1, IndexFrom(s, StyleOpen, 1) - 1)
             \o ReplaceStyles(SubSeq(s, StyleEnd(s) + 1, Len(s)))

\* Array.prototype.join
RECURSIVE Join(_, _)
Join(parts, sep) ==
    IF parts = <<>> THEN <<>>
    ELSE IF Len(parts) = 1 THEN parts[1]
    ELSE parts[1] \o <<sep>> \o Join(Tail(parts), sep)

\* .replace(/<\/?style>/gi, '')
RemoveStyleTags(s) == SelectSeq(s, LAMBDA p : p \notin {StyleOpen, StyleClose})

\* Pieces standing for a Hebrew and an Arabic letter
RtlChars == {"U+05D0", "U+0627"}

\* /[\u0600-\u06FF\u0590-\u05FF]/.test(text)
containsRtlChars(text) == \E i \in DOMAIN text : text[i] \in RtlChars

\* useState(''), useState(''), useState(false), useState(false)
InitialLocal ==
    [blogContent |-> <<>>, blogStyles |-> <<>>, isRtl |-> FALSE, copied |-> FALSE]

\* The body of useEffect(..., [result])
StyleEffect(local, result) ==
    IF Truthy(result)
    THEN LET styleMatch == StyleMatch(result.v)
             css == IF styleMatch # <<>>
                    THEN RemoveStyleTags(Join(styleMatch, "\n"))
                    ELSE <<>>
             content == Trim(ReplaceStyles(result.v))
         IN  [local EXCEPT !.blogStyles = css,
                           !.blogContent = content,
                           !.isRtl = containsRtlChars(content)]
    ELSE [local EXCEPT !.blogStyles = <<>>, !.blogContent = <<>>, !.isRtl = FALSE]

\* {result && renderResult()}, where renderResult returns null on an empty
\* blogContent: whether the generated-post card with the copy button is shown
CardShown(result, local) == Truthy(result) /\ local.blogContent # <<>>

NoWrites == [pending |-> <<>>, timers |-> 0, clicks |-> 0]

\* copyToClipboard, for a browser whose Clipboard API is complete ("full"),
\* lacks ClipboardItem ("noClipboardItem": the try block throws) or lacks
\* navigator.clipboard ("noClipboard": try and catch both throw)
CopyToClipboard(local, writes, api) ==
    IF local.blogContent = <<>> THEN writes
    ELSE CASE api = "full" -> [writes EXCEPT !.pending = Append(@, "html")]
           [] api = "noClipboardItem" -> [writes EXCEPT !.pending = Append(@, "text")]
           [] OTHER -> writes

ClipboardApis == {"full", "noClipboardItem", "noClipboard"}

---------------------------------------------------------------------------
(* The On-Page SEO tool's markdown parser *)

\* A markdown text is a sequence of characters. In the HTML it becomes, each
\* generated tag and each entity is one piece, which tells them from the
\* characters of the text.

\* The piece that stands for the backtick character
Backtick == "BACKTICK"

\* escapeHtml of one piece; the <br /> a paragraph got before its code spans
\* are handled is text again inside a code span
EscapePiece(p) ==
    CASE p = "&" -> <<"&amp;">>
      [] p = "<" -> <<"&lt;">>
      [] p = ">" -> <<"&gt;">>
      [] p = "\"" -> <<"&quot;">>
      [] p = "'" -> <<"&#039;">>
      [] p = "<br />" -> <<"&lt;", "b", "r", " ", "/", "&gt;">>
      [] OTHER -> <<p>>

RECURSIVE escapeHtml(_)
escapeHtml(unsafe) ==
    IF unsafe = <<>> THEN <<>>
    ELSE EscapePiece(Head(unsafe)) \o escapeHtml(Tail(unsafe))

\* Where (.*?)` ends when tried at from: the first backtick at or after from
\* with no newline before it, 0 if none
RECURSIVE CodeClose(_, _)
CodeClose(s, from) ==
    IF from > Len(s) THEN 0
    ELSE IF s[from] = Backtick THEN from
    ELSE IF s[from] = "\n" THEN 0
    ELSE CodeClose(s, from + 1)

\* line.replace(/`(.*?)`/g, (match, codeContent) => `<code>${escapeHtml(codeContent)}</code>`)
RECURSIVE ReplaceCode(_, _)
ReplaceCode(s, p) ==
    IF p > Len(s) THEN <<>>
    ELSE IF s[p] = Backtick /\ CodeClose(s, p + 1) # 0
    THEN <<"<code>">> \o escapeHtml(SubSeq(s, p + 1, CodeClose(s, p + 1) - 1)) \o <<"</code>">>
             \o ReplaceCode(s, CodeClose(s, p + 1) + 1)
    ELSE <<s[p]>> \o ReplaceCode(s, p + 1)

\* Where (.*?)\*\* ends when tried at from: the first ** at or after from with
\* no newline before it, 0 if none
RECURSIVE BoldClose(_, _)
BoldClose(s, from) ==
    IF from + 1 > Len(s) THEN 0
    ELSE IF s[from] = "*" /\ s[from + 1] = "*" THEN from
    ELSE IF s[from] = "\n" THEN 0
    ELSE BoldClose(s, from + 1)

\* processedLine.replace(/\*\*(.*?)\*\*/g, '<strong>$1</strong>')
RECURSIVE ReplaceBold(_, _)
ReplaceBold(s, p) ==
    IF p > Len(s) THEN <<>>
    ELSE IF p + 1 <= Len(s) /\ s[p] = "*" /\ s[p + 1] = "*" /\ BoldClose(s, p + 2) # 0
    THEN <<"<strong>">> \o SubSeq(s, p + 2, BoldClose(s, p + 2) - 1) \o <<"</strong>">>
             \o ReplaceBold(s, BoldClose(s, p + 2) + 2)
    ELSE <<s[p]>> \o ReplaceBold(s, p + 1)

\* processLine: code spans first, then bold over the whole processed line
processLine(line) == ReplaceBold(ReplaceCode(line, 1), 1)

\* The first position at or after from where sep stands in s, 0 if none
RECURSIVE Find(_, _, _)
Find(s, sep, from) ==
    IF from + Len(sep) - 1 > Len(s) THEN 0
    ELSE IF SubSeq(s, from, from + Len(sep) - 1) = sep THEN from
    ELSE Find(s, sep, from + 1)

\* String.prototype.split with a non-empty separator
RECURSIVE Split(_, _)
Split(s, sep) ==
    IF Find(s, sep, 1) = 0 THEN <<s>>
    ELSE <<SubSeq(s, 1, Find(s, sep, 1) - 1)>>
             \o Split(SubSeq(s, Find(s, sep, 1) + Len(sep), Len(s)), sep)

\* String.prototype.startsWith
StartsWith(s, prefix) == Len(s) >= Len(prefix) /\ SubSeq(s, 1, Len(prefix)) = prefix

\* item.replace(/^\*   ?/, ''): a star, two spaces and a third one if there
StripBullet(item) ==
    IF StartsWith(item, <<"*", " ", " ", " ">>) THEN SubSeq(item, 5, Len(item))
    ELSE IF StartsWith(item, <<"*", " ", " ">>) THEN SubSeq(item, 4, Len(item))
    ELSE item

\* block.replace(/\n/g, '<br />')
RECURSIVE BreakLines(_)
BreakLines(block) ==
    IF block = <<>> THEN <<>>
    ELSE <<IF Head(block) = "\n" THEN "<br />" ELSE Head(block)>> \o BreakLines(Tail(block))

\* items.map(item => `<li>${processLine(...)}</li>`).join('')
RECURSIVE ListItems(_)
ListItems(items) ==
    IF items = <<>> THEN <<>>
    ELSE <<"<li>">> \o processLine(StripBullet(Head(items))) \o <<"</li>">>
             \o ListItems(Tail(items))

\* The callback of text.split('\n\n').map(...)
ParseBlock(block) ==
    IF StartsWith(Trim(block), <<"*", " ">>)
    THEN <<"<ul>">> \o ListItems(Split(block, <<"\n">>)) \o <<"</ul>">>
    ELSE IF StartsWith(block, <<"#", "#", " ">>)
    THEN <<"<h2>">> \o processLine(SubSeq(block, 4, Len(block))) \o <<"</h2>">>
    ELSE <<"<p>">> \o processLine(BreakLines(block)) \o <<"</p>">>

RECURSIVE ParseBlocks(_)
ParseBlocks(blocks) ==
    IF blocks = <<>> THEN <<>>
    ELSE ParseBlock(Head(blocks)) \o ParseBlocks(Tail(blocks))

parseMarkdown(text) ==
    IF text = <<>> THEN <<>>
    ELSE ParseBlocks(Split(text, <<"\n", "\n">>))

\* The characters the texts are made of
MarkdownChars == {Backtick, "*", "<", "\n"}

\* The texts parseMarkdown is called with: every text of at most MaxLen of the
\* characters, and reports with a list, a heading, paragraphs and code spans
MarkdownTexts ==
    UNION {[1..n -> MarkdownChars] : n \in 0..MaxLen}
    \cup {<<Backtick, "*", "*", "a", "*", "*", Backtick>>,
          <<"*", " ", " ", Backtick, "<", "b", ">", Backtick, "\n", "*", " ", " ", " ", "*", "*", "b", "*", "*">>,
          <<"#", "#", " ", "h", " ", Backtick, "&", Backtick, "\n", "\n", "a", "\n", Backtick, "\"", "'", Backtick>>,
          <<"a", " ", Backtick, "x", "\n", "y", Backtick, " ", "*", "*", "b", "*", "*">>}

---------------------------------------------------------------------------
(* Inputs: what the user types, what is in the store, what the webhook sends *)

WebhookValues == {JStr(<<"b">>)}
QueryValues == {JStr(<<"x">>)}
Statuses == {200, 500}

AllWebhooks(w) == JObj([tool \in Tool |-> w])

\* Contents of the store at first start: absent, a saved mapping, or corrupt
\* (not JSON; JSON but null, a number or an array)
StoredTexts ==
    {NoItem, Garbage,
     JsonText(AllWebhooks(JStr(<<"a">>))),
     JsonText(JObj(KeywordGenerator :> JStr(<<"b">>))),
     JsonText(JNull), JsonText(JNum(5)), JsonText(JArr(<<>>))}

KwFull ==
    JObj([keyword |-> JStr(<<"k">>), intent |-> JStr(<<"i">>),
          volumeCategory |-> JStr(<<"v">>), type |-> JStr(<<"t">>)])
KwNoIntent == JObj([keyword |-> JStr(<<"k">>)])

KeywordBodies ==
    {JArr(<<JObj([keywords |-> JArr(<<KwFull>>)])>>),
     JArr(<<JObj([keywords |-> JArr(<<>>)])>>),
     JArr(<<JObj([keywords |-> JArr(<<KwNoIntent>>)])>>),
     JArr(<<JObj([keywords |-> JArr(<<JNull>>)])>>),
     JArr(<<JObj([keywords |-> JArr(<<KwFull, JNum(5)>>)])>>),
     JObj("0" :> JObj([keywords |-> JArr(<<KwFull>>)])),
     JNull}

HtmlBodies ==
    {JArr(<<JObj([blog_post_html |-> JStr(<<"h">>)])>>),
     JArr(<<JObj([blog_post_html |-> JStr(<<" ", "h", " ">>)])>>),
     JArr(<<JObj([blog_post_html |-> JStr(<<" ">>)])>>),
     JObj("0" :> JObj([blog_post_html |-> JStr(<<"h">>)])),
     JArr(<<>>)}

RankBodies ==
    {JArr(<<JObj([current_rank |-> JNum(3), previous_rank |-> JNum(5)])>>),
     JArr(<<JObj([current_rank |-> JNum(0), previous_rank |-> JNum(0)])>>),
     JArr(<<JObj([current_rank |-> JStr(<<"x">>), previous_rank |-> JNull])>>),
     JArr(<<JObj([current_rank |-> JNum(1)])>>),
     JObj("0" :> JObj([current_rank |-> JNum(3), previous_rank |-> JNum(5)])),
     JArr(<<JNull>>)}

\* Blog posts: plain, with a style block, style blocks only, right-to-left
\* with two style blocks, and blank
BlogBodies ==
    {JArr(<<JObj([blog_post_html |-> JStr(<<"h">>)])>>),
     JArr(<<JObj([blog_post_html |-> JStr(<<StyleOpen, "c", StyleClose, "h", " ">>)])>>),
     JArr(<<JObj([blog_post_html |-> JStr(<<StyleOpen, "c", StyleClose>>)])>>),
     JArr(<<JObj([blog_post_html |->
                    JStr(<<StyleOpen, "c", StyleClose, "U+05D0", StyleOpen, "d", StyleClose>>)])>>),
     JArr(<<JObj([blog_post_html |-> JStr(<<" ">>)])>>)}

Bodies(tool) ==
    CASE tool = KeywordGenerator -> KeywordBodies
      [] tool = RankTracker -> RankBodies
      [] OTHER -> HtmlBodies

\* Values fetch() rejects with: a TypeError
FetchRejections == {ErrorOf(<<"Failed to fetch">>)}

\* The SyntaxError response.json() rejects with
JsonSyntaxError == ErrorOf(<<"Unexpected token in JSON">>)

---------------------------------------------------------------------------
(* State machine *)

NoDelivery == [kind |-> "none", data |-> JNull]

\* The history of successes: not recorded, or recorded and empty
NoHistory == [tool \in Tool |-> Undefined]
NoSuccess == [tool \in Tool |-> JNull]

\* The history after a submit of the tool succeeded with the result
Succeeded(tool, result) ==
    IF lastSuccess = NoHistory THEN lastSuccess ELSE [lastSuccess EXCEPT ![tool] = result]

Init ==
    /\ storage \in StoredTexts
    /\ appState = InitialState(storage)
    /\ activeTool = OnPageSEO
    /\ inflight = [tool \in Tool |-> <<>>]
    /\ issued = [tool \in Tool |-> 0]
    /\ accepted = [tool \in Tool |-> 0]
    /\ delivered = [tool \in Tool |-> NoDelivery]
    /\ entered = [tool \in Tool |-> Undefined]
    /\ edits = 0
    /\ boots = 0
    /\ lastSuccess = NoHistory
    /\ calls = 0
    /\ blog = InitialLocal
    /\ clip = NoWrites
    /\ markdown = EmptyStr
    /\ html = Undefined

TotalIssued ==
    issued[OnPageSEO] + issued[KeywordGenerator] + issued[BlogPostWriter] + issued[RankTracker]

\* Variant: the inputs stay enabled while loading
InputsDisabled_Never(rec) == FALSE

\* disabled={isLoading} on the webhook and query inputs
InputsDisabled(rec) == rec.isLoading

\* Variant: the button is disabled only by empty fields
SubmitDisabled_IgnoresLoading(rec, tool) == GuardFails(rec, tool)

\* disabled={isLoading || !webhook || !topic} on the submit button
SubmitDisabled(rec, tool) == rec.isLoading \/ GuardFails(rec, tool)

\* The Blog Post Writer is mounted before and after the step
StaysMounted ==
    activeTool = BlogPostWriter /\ activeTool' = BlogPostWriter /\ boots' = boots

\* What a step of the App does to the Blog Post Writer: a mounted component
\* is rendered again and its effect runs on the new result; an unmounted one
\* loses its local state, and the callbacks of its clipboard writes and
\* timers, which would set state of an unmounted component, are dropped; a
\* newly mounted one starts from the initial values and runs its effect
Render ==
    IF StaysMounted
    THEN /\ blog' = StyleEffect(blog, appState'[BlogPostWriter].result)
         /\ clip' = clip
    ELSE /\ blog' = IF activeTool' = BlogPostWriter
                    THEN StyleEffect(InitialLocal, appState'[BlogPostWriter].result)
                    ELSE InitialLocal
         /\ clip' = [clip EXCEPT !.pending = <<>>, !.timers = 0]

\* Sidebar button: setActiveTool(id); the tool components are remounted from appState
SetActiveTool(tool) ==
    /\ tool # activeTool
    /\ activeTool' = tool
    /\ UNCHANGED <<appState, storage, inflight, issued, accepted, delivered, entered, edits, boots, lastSuccess, calls, markdown, html>>
    /\ Render

\* WebhookInput onChange: updateState({ webhook: e.target.value })
ChangeWebhook(tool, value) ==
    /\ tool = activeTool
    /\ ~InputsDisabled(appState[tool])
    /\ value # appState[tool].webhook
    /\ edits < MaxEdits
    /\ LET st == Update([app |-> appState, store |-> storage], tool, [webhook |-> value])
       IN  appState' = st.app /\ storage' = st.store
    /\ entered' = [entered EXCEPT ![tool] = value]
    /\ edits' = edits + 1
    /\ UNCHANGED <<activeTool, inflight, issued, accepted, delivered, boots, lastSuccess, calls, markdown, html>>
    /\ Render

\* query input onChange: updateState({ [field]: e.target.value })
ChangeQuery(tool, field, value) ==
    /\ tool = activeTool
    /\ field \in QueryFields(tool)
    /\ ~InputsDisabled(appState[tool])
    /\ value # appState[tool][field]
    /\ edits < MaxEdits
    /\ LET st == Update([app |-> appState, store |-> storage], tool, field :> value)
       IN  appState' = st.app /\ storage' = st.store
    /\ edits' = edits + 1
    /\ UNCHANGED <<activeTool, inflight, issued, accepted, delivered, entered, boots, lastSuccess, calls, markdown, html>>
    /\ Render

\* handleSubmit up to its first await
HandleSubmit(tool) ==
    LET rec == appState[tool]
        st0 == [app |-> appState, store |-> storage]
    IN  IF GuardFails(rec, tool)
        THEN LET st == Update(st0, tool, RequiredPatch(tool))
             IN  /\ appState' = st.app /\ storage' = st.store
                 /\ UNCHANGED <<inflight, issued, accepted, delivered>>
        ELSE LET st == Update(st0, tool, StartPatch)
             IN  /\ appState' = st.app /\ storage' = st.store
                 /\ inflight' = [inflight EXCEPT ![tool] =
                        Append(@, [url |-> rec.webhook,
                                   body |-> [k \in QueryFields(tool) |-> rec[k]],
                                   pc |-> "fetch"])]
                 /\ issued' = [issued EXCEPT ![tool] = @ + 1]
                 /\ accepted' = [accepted EXCEPT ![tool] = @ + 1]
                 /\ delivered' = [delivered EXCEPT ![tool] = NoDelivery]

\* submit button onClick. React renders the state updates of an input event
\* before the next event is dispatched, so a click lands on a button whose
\* disabled attribute and handler closure reflect the current appState.
ClickSubmit(tool) ==
    /\ tool = activeTool
    /\ ~SubmitDisabled(appState[tool], tool)
    /\ TotalIssued < MaxPosts
    /\ HandleSubmit(tool)
    /\ UNCHANGED <<activeTool, entered, edits, boots, lastSuccess, calls, markdown, html>>
    /\ Render

Remove(seq, i) == SubSeq(seq, 1, i - 1) \o SubSeq(seq, i + 1, Len(seq))

\* The end of a handler invocation that took the catch path
Failed(tool, i, e, what) ==
    /\ LET st == OnThrow([app |-> appState, store |-> storage], tool, e)
       IN  appState' = st.app /\ storage' = st.store
    /\ delivered' = [delivered EXCEPT ![tool] = what]
    /\ IF RefetchOnFailure
       THEN /\ inflight' = [inflight EXCEPT ![tool][i].pc = "fetch"]
            /\ issued' = [issued EXCEPT ![tool] = @ + 1]
       ELSE /\ inflight' = [inflight EXCEPT ![tool] = Remove(@, i)]
            /\ UNCHANGED issued
    /\ UNCHANGED <<activeTool, accepted, entered, edits, boots, lastSuccess, calls, markdown, html>>
    /\ Render

\* await fetch(...) rejects (network failure)
FetchReject(tool, i, e) ==
    /\ i \in DOMAIN inflight[tool]
    /\ inflight[tool][i].pc = "fetch"
    /\ Failed(tool, i, e, [kind |-> "reject", data |-> JNull])

\* await fetch(...) resolves with a response of the given status
FetchResponse(tool, i, status) ==
    /\ i \in DOMAIN inflight[tool]
    /\ inflight[tool][i].pc = "fetch"
    /\ IF ResponseOk(status)
       THEN /\ inflight' = [inflight EXCEPT ![tool][i].pc = "json"]
            /\ UNCHANGED <<appState, activeTool, storage, issued, accepted, delivered,
                           entered, edits, boots, lastSuccess, calls, markdown, html>>
            /\ Render
       ELSE Failed(tool, i, HttpError(status), [kind |-> "status", data |-> JNum(status)])

\* await response.json() rejects: the body is not JSON
JsonReject(tool, i) ==
    /\ i \in DOMAIN inflight[tool]
    /\ inflight[tool][i].pc = "json"
    /\ Failed(tool, i, JsonSyntaxError, [kind |-> "notjson", data |-> JNull])

\* await response.json() resolves with the parsed body
JsonData(tool, i, data) ==
    /\ i \in DOMAIN inflight[tool]
    /\ inflight[tool][i].pc = "json"
    /\ IF Validate(tool, data).ok
       THEN /\ LET st == OnData([app |-> appState, store |-> storage], tool, data)
               IN  appState' = st.app /\ storage' = st.store
            /\ inflight' = [inflight EXCEPT ![tool] = Remove(@, i)]
            /\ delivered' = [delivered EXCEPT ![tool] = [kind |-> "data", data |-> data]]
            /\ lastSuccess' = Succeeded(tool, Validate(tool, data).result)
            /\ UNCHANGED <<activeTool, issued, accepted, entered, edits, boots, calls, markdown, html>>
            /\ Render
       ELSE /\ LET st == OnData([app |-> appState, store |-> storage], tool, data)
               IN  appState' = st.app /\ storage' = st.store
            /\ delivered' = [delivered EXCEPT ![tool] = [kind |-> "data", data |-> data]]
            /\ IF RefetchOnFailure
               THEN /\ inflight' = [inflight EXCEPT ![tool][i].pc = "fetch"]
                    /\ issued' = [issued EXCEPT ![tool] = @ + 1]
               ELSE /\ inflight' = [inflight EXCEPT ![tool] = Remove(@, i)]
                    /\ UNCHANGED issued
            /\ UNCHANGED <<activeTool, accepted, entered, edits, boots, lastSuccess, calls, markdown, html>>
            /\ Render

\* Page reload: the App is constructed again from the store; pending handlers
\* of the old page are gone
Restart ==
    /\ boots < MaxRestarts
    /\ boots' = boots + 1
    /\ appState' = InitialState(storage)
    /\ activeTool' = OnPageSEO
    /\ inflight' = [tool \in Tool |-> <<>>]
    /\ delivered' = [tool \in Tool |-> NoDelivery]
    /\ lastSuccess' = IF lastSuccess = NoHistory THEN lastSuccess ELSE NoSuccess
    /\ UNCHANGED <<storage, issued, accepted, entered, edits, calls, markdown, html>>
    /\ Render

Next ==
    \/ \E tool \in Tool : SetActiveTool(tool)
    \/ \E tool \in Tool, value \in WebhookValues : ChangeWebhook(tool, value)
    \/ \E tool \in Tool, field \in {"url", "topic", "domain", "keyword"}, value \in QueryValues :
          ChangeQuery(tool, field, value)
    \/ \E tool \in Tool : ClickSubmit(tool)
    \/ \E tool \in Tool, i \in 1..MaxPosts, e \in FetchRejections : FetchReject(tool, i, e)
    \/ \E tool \in Tool, i \in 1..MaxPosts, status \in Statuses : FetchResponse(tool, i, status)
    \/ \E tool \in Tool, i \in 1..MaxPosts : JsonReject(tool, i)
    \/ \E tool \in Tool, i \in 1..MaxPosts : \E data \in Bodies(tool) : JsonData(tool, i, data)
    \/ Restart

Spec == Init /\ [][Next]_vars

\* The start of a page load whose successes are recorded
InitHistory ==
    /\ storage \in StoredTexts
    /\ appState = InitialState(storage)
    /\ activeTool = OnPageSEO
    /\ inflight = [tool \in Tool |-> <<>>]
    /\ issued = [tool \in Tool |-> 0]
    /\ accepted = [tool \in Tool |-> 0]
    /\ delivered = [tool \in Tool |-> NoDelivery]
    /\ entered = [tool \in Tool |-> Undefined]
    /\ edits = 0
    /\ boots = 0
    /\ lastSuccess = NoSuccess
    /\ calls = 0
    /\ blog = InitialLocal
    /\ clip = NoWrites
    /\ markdown = EmptyStr
    /\ html = Undefined

\* One page load through the user interface
NextHistory ==
    \/ \E tool \in Tool : SetActiveTool(tool)
    \/ \E tool \in Tool, value \in WebhookValues : ChangeWebhook(tool, value)
    \/ \E tool \in Tool, field \in {"url", "topic", "domain", "keyword"}, value \in QueryValues :
          ChangeQuery(tool, field, value)
    \/ \E tool \in Tool : ClickSubmit(tool)
    \/ \E tool \in Tool, i \in 1..MaxPosts, e \in FetchRejections : FetchReject(tool, i, e)
    \/ \E tool \in Tool, i \in 1..MaxPosts, status \in Statuses : FetchResponse(tool, i, status)
    \/ \E tool \in Tool, i \in 1..MaxPosts : JsonReject(tool, i)
    \/ \E tool \in Tool, i \in 1..MaxPosts : \E data \in Bodies(tool) : JsonData(tool, i, data)

SpecHistory == InitHistory /\ [][NextHistory]_vars

\* handleSubmit invoked while the webhook or a required field is empty, which
\* the disabled submit button does not allow: a call of the handler itself
SubmitWithEmptyField(tool) ==
    /\ tool = activeTool
    /\ GuardFails(appState[tool], tool)
    /\ calls < MaxCalls
    /\ HandleSubmit(tool)
    /\ calls' = calls + 1
    /\ UNCHANGED <<activeTool, entered, edits, boots, lastSuccess, markdown, html>>
    /\ Render

\* The bodies of a tool that its handler accepts
AcceptedBodies(tool) == {data \in Bodies(tool) : Validate(tool, data).ok}

\* One page load in which the query fields can also be cleared and the
\* handlers can also be called with an empty field; a request ends with a
\* status that is not 2xx or with an accepted body
NextDirect ==
    \/ \E tool \in Tool : SetActiveTool(tool)
    \/ \E tool \in Tool, value \in WebhookValues : ChangeWebhook(tool, value)
    \/ \E tool \in Tool, field \in {"url", "topic", "domain", "keyword"},
          value \in QueryValues \cup {EmptyStr} : ChangeQuery(tool, field, value)
    \/ \E tool \in Tool : ClickSubmit(tool)
    \/ \E tool \in Tool, i \in 1..MaxPosts, status \in Statuses : FetchResponse(tool, i, status)
    \/ \E tool \in Tool, i \in 1..MaxPosts : \E data \in AcceptedBodies(tool) : JsonData(tool, i, data)
    \/ \E tool \in Tool : SubmitWithEmptyField(tool)

SpecDirect == Init /\ [][NextDirect]_vars

\* Copy button onClick: copyToClipboard in the browser's clipboard support
CopyClick(api) ==
    /\ activeTool = BlogPostWriter
    /\ CardShown(appState[BlogPostWriter].result, blog)
    /\ ~blog.copied
    /\ clip.clicks < MaxCopies
    /\ clip' = [CopyToClipboard(blog, clip, api) EXCEPT !.clicks = @ + 1]
    /\ UNCHANGED <<appState, activeTool, storage, inflight, issued, accepted, delivered,
                   entered, edits, boots, lastSuccess, calls, blog, markdown, html>>

\* The promise of navigator.clipboard.write or writeText settles: the then
\* callback sets copied and starts the timer; a rejection has no handler
ClipboardSettles(i, fulfilled) ==
    /\ i \in DOMAIN clip.pending
    /\ IF fulfilled
       THEN /\ blog' = [blog EXCEPT !.copied = TRUE]
            /\ clip' = [clip EXCEPT !.pending = Remove(@, i), !.timers = @ + 1]
       ELSE /\ blog' = blog
            /\ clip' = [clip EXCEPT !.pending = Remove(@, i)]
    /\ UNCHANGED <<appState, activeTool, storage, inflight, issued, accepted, delivered,
                   entered, edits, boots, lastSuccess, calls, markdown, html>>

\* setTimeout(() => setCopied(false), 2000) fires
CopiedTimeout ==
    /\ clip.timers > 0
    /\ blog' = [blog EXCEPT !.copied = FALSE]
    /\ clip' = [clip EXCEPT !.timers = @ - 1]
    /\ UNCHANGED <<appState, activeTool, storage, inflight, issued, accepted, delivered,
                   entered, edits, boots, lastSuccess, calls, markdown, html>>

\* The Blog Post Writer with its copy button: its fields, its submit handler
\* and requests, mounting and unmounting through the sidebar, page reloads
NextBlog ==
    \/ \E tool \in Tool : SetActiveTool(tool)
    \/ \E value \in WebhookValues : ChangeWebhook(BlogPostWriter, value)
    \/ \E value \in QueryValues : ChangeQuery(BlogPostWriter, "topic", value)
    \/ ClickSubmit(BlogPostWriter)
    \/ \E i \in 1..MaxPosts, e \in FetchRejections : FetchReject(BlogPostWriter, i, e)
    \/ \E i \in 1..MaxPosts, status \in Statuses : FetchResponse(BlogPostWriter, i, status)
    \/ \E i \in 1..MaxPosts : JsonReject(BlogPostWriter, i)
    \/ \E i \in 1..MaxPosts, data \in BlogBodies : JsonData(BlogPostWriter, i, data)
    \/ Restart
    \/ \E api \in ClipboardApis : CopyClick(api)
    \/ \E i \in 1..MaxCopies, fulfilled \in BOOLEAN : ClipboardSettles(i, fulfilled)
    \/ CopiedTimeout

SpecBlog == Init /\ [][NextBlog]_vars

\* A call of parseMarkdown returns
ParseMarkdown ==
    /\ html = Undefined
    /\ html' = JStr(parseMarkdown(markdown.v))
    /\ UNCHANGED <<appState, activeTool, storage, inflight, issued, accepted, delivered,
                   entered, edits, boots, lastSuccess, calls, blog, clip, markdown>>

\* parseMarkdown on its own: the call is about to be made with any of the texts
InitMarkdown ==
    /\ storage = NoItem
    /\ appState = InitialState(storage)
    /\ activeTool = OnPageSEO
    /\ inflight = [tool \in Tool |-> <<>>]
    /\ issued = [tool \in Tool |-> 0]
    /\ accepted = [tool \in Tool |-> 0]
    /\ delivered = [tool \in Tool |-> NoDelivery]
    /\ entered = [tool \in Tool |-> Undefined]
    /\ edits = 0
    /\ boots = 0
    /\ lastSuccess = NoHistory
    /\ calls = 0
    /\ blog = InitialLocal
    /\ clip = NoWrites
    /\ markdown \in {JStr(text) : text \in MarkdownTexts}
    /\ html = Undefined

NextMarkdown == ParseMarkdown

SpecMarkdown == InitMarkdown /\ [][NextMarkdown]_vars

---------------------------------------------------------------------------
(* Properties *)

\* The tool's last request ended in a failure: fetch rejected, the status was
\* not 2xx, the body was not JSON, or the handler rejected the shape
FailedDelivery(tool) ==
    \/ delivered[tool].kind \in {"reject", "status", "notjson"}
    \/ delivered[tool].kind = "data" /\ ~Validate(tool, delivered[tool].data).ok

\* C1: at most one request of a tool is outstanding at any time, whatever the
\* interleaving of edits, submit clicks, tool switches and completions.
C1_OneOutstandingRequest == \A tool \in Tool : Len(inflight[tool]) <= 1

\* C1 witness: two tools have a request outstanding while a third tool is shown
C1_Witness ==
    \E t1, t2 \in Tool :
        /\ t1 # t2 /\ activeTool \notin {t1, t2}
        /\ Len(inflight[t1]) = 1 /\ Len(inflight[t2]) = 1

\* C2: every submit whose request failed leaves the tool with a non-null,
\* non-empty error message, a null result and isLoading false.
C2_FailureShowsError ==
    \A tool \in Tool :
        FailedDelivery(tool) =>
            /\ appState[tool].error.t = "str" /\ appState[tool].error.v # <<>>
            /\ appState[tool].result = JNull
            /\ appState[tool].isLoading = FALSE

\* C2 witness: a 2xx JSON body was rejected for its shape by a tool, and a
\* request of another tool failed before a body arrived
C2_Witness ==
    \E t1, t2 \in Tool :
        /\ t1 # t2
        /\ delivered[t1].kind = "data" /\ ~Validate(t1, delivered[t1].data).ok
        /\ delivered[t2].kind \in {"reject", "status", "notjson"}
        /\ appState[t1].error # JNull /\ appState[t2].error # JNull

IsStringValue(v) == v.t = "str"
IsNumberValue(v) == v.t = "num"

\* A keyword object as the Keyword interface declares it
IsKeywordObject(v) ==
    /\ v.t = "obj"
    /\ {"keyword", "intent"} \subseteq DOMAIN v.v
    /\ \A k \in DOMAIN v.v : IsStringValue(v.v[k])

\* The shape the interface description expects of a response body: a JSON
\* array whose first element is an object carrying the tool's payload
WellFormed(tool, data) ==
    /\ data.t = "arr" /\ Len(data.v) > 0 /\ data.v[1].t = "obj"
    /\ LET first == data.v[1].v
       IN  CASE tool = KeywordGenerator ->
                 /\ "keywords" \in DOMAIN first
                 /\ first.keywords.t = "arr"
                 /\ \A i \in DOMAIN first.keywords.v : IsKeywordObject(first.keywords.v[i])
             [] tool = RankTracker ->
                 /\ {"current_rank", "previous_rank"} \subseteq DOMAIN first
                 /\ IsNumberValue(first.current_rank)
                 /\ IsNumberValue(first.previous_rank)
             [] OTHER ->
                 /\ "blog_post_html" \in DOMAIN first
                 /\ IsStringValue(first.blog_post_html)
                 /\ first.blog_post_html.v # <<>>

\* C3: a result is only ever produced from a 2xx JSON body of the expected
\* shape; every other body leaves the result null. (Stated as claimed; the
\* handlers accept bodies outside that shape.)
C3_OnlyWellFormedAccepted ==
    \A tool \in Tool :
        appState[tool].result # JNull =>
            delivered[tool].kind = "data" /\ WellFormed(tool, delivered[tool].data)

\* The payload of the first element of a well-formed body, as sent
Payload(tool, data) ==
    LET first == data.v[1].v
    IN  CASE tool = KeywordGenerator -> first.keywords
          [] tool = RankTracker ->
               JObj(("Current Rank" :> first.current_rank)
                 @@ ("Previous Rank" :> first.previous_rank))
          [] OTHER -> first.blog_post_html

\* C4 as claimed: after a well-formed response the tool has no error, is not
\* loading, and its result equals the payload of the first element as sent.
C4_ResultEqualsPayloadAsSent ==
    \A tool \in Tool :
        (delivered[tool].kind = "data" /\ WellFormed(tool, delivered[tool].data)) =>
            /\ appState[tool].error = JNull
            /\ appState[tool].isLoading = FALSE
            /\ appState[tool].result = Payload(tool, delivered[tool].data)

\* A text payload that is not blank: it has a character that is not white space
NotBlank(v) == \E i \in DOMAIN v.v : ~IsSpace(v.v[i])

\* Well-formed, with the text of the two text tools required to be not blank
WellFormedNotBlank(tool, data) ==
    /\ WellFormed(tool, data)
    /\ tool \in {OnPageSEO, BlogPostWriter} => NotBlank(data.v[1].v.blog_post_html)

\* A rank as the Rank Tracker shows it: 0 stands for the sentinel
ShownRank(rank, sentinel) == IF rank.v = 0 THEN JStr(<<sentinel>>) ELSE rank

\* The payload with the ranks as the Rank Tracker shows them
ShownPayload(tool, data) ==
    LET first == data.v[1].v
    IN  IF tool = RankTracker
        THEN JObj(("Current Rank" :> ShownRank(first.current_rank, "Not Found"))
               @@ ("Previous Rank" :> ShownRank(first.previous_rank, "N/A")))
        ELSE Payload(tool, data)

\* C4 (amended): after a well-formed response whose text payload is not
\* blank, the tool has no error, is not loading, and its result is the
\* keywords list, the blog_post_html string as sent, or the two ranks with a
\* rank of 0 replaced by 'Not Found' (current) and 'N/A' (previous).
C4_ResultMatchesPayload ==
    \A tool \in Tool :
        (delivered[tool].kind = "data" /\ WellFormedNotBlank(tool, delivered[tool].data)) =>
            /\ appState[tool].error = JNull
            /\ appState[tool].isLoading = FALSE
            /\ appState[tool].result = ShownPayload(tool, delivered[tool].data)

\* C4 witness: the Rank Tracker shows the sentinels for a well-formed response
\* whose two ranks are 0
C4_Witness ==
    /\ delivered[RankTracker].kind = "data"
    /\ WellFormed(RankTracker, delivered[RankTracker].data)
    /\ ~appState[RankTracker].isLoading
    /\ appState[RankTracker].result =
          JObj(("Current Rank" :> JStr(<<"Not Found">>)) @@ ("Previous Rank" :> JStr(<<"N/A">>)))

\* C5: nothing is retried: every accepted submit has issued exactly one POST,
\* and once a request has failed no request of the tool is pending.
C5_NoRetry ==
    \A tool \in Tool :
        /\ issued[tool] = accepted[tool]
        /\ FailedDelivery(tool) => inflight[tool] = <<>>

\* C5 witness: a tool's first request failed and the user's second submit is
\* now pending
C5_Witness ==
    \E tool \in Tool :
        /\ issued[tool] = 2 /\ accepted[tool] = 2
        /\ Len(inflight[tool]) = 1
        /\ appState[tool].isLoading

\* C6: a tool is loading exactly while a request of it is outstanding: from
\* the accepted submit until the request settles, and never after that,
\* whichever tool is shown.
C6_LoadingWhileOutstanding ==
    \A tool \in Tool : appState[tool].isLoading <=> inflight[tool] # <<>>

\* C6 witness: a request settled in a failure and the tool stopped loading
\* while another tool, itself still loading, is shown
C6_Witness ==
    \E t1, t2 \in Tool :
        /\ t1 # t2 /\ activeTool = t2
        /\ FailedDelivery(t1) /\ ~appState[t1].isLoading
        /\ inflight[t2] # <<>> /\ inflight[t2][1].pc = "json" /\ appState[t2].isLoading

\* C7: while a request is in flight the tool's inputs and submit button are
\* disabled and its webhook and query fields equal the values that were sent.
C7_FieldsFrozenInFlight ==
    \A tool \in Tool : \A i \in DOMAIN inflight[tool] :
        /\ InputsDisabled(appState[tool])
        /\ SubmitDisabled(appState[tool], tool)
        /\ appState[tool].webhook = inflight[tool][i].url
        /\ \A k \in QueryFields(tool) : appState[tool][k] = inflight[tool][i].body[k]

\* C7 witness: the Rank Tracker has a request in flight, sent with the typed
\* domain and keyword, and is shown
C7_Witness ==
    /\ activeTool = RankTracker
    /\ Len(inflight[RankTracker]) = 1
    /\ inflight[RankTracker][1].pc = "json"
    /\ inflight[RankTracker][1].body.domain = JStr(<<"x">>)
    /\ appState[RankTracker].keyword = JStr(<<"x">>)

\* C8: after any webhook edits and a restart, each tool's webhook in the
\* initial state is the last value the user entered for it. (Stated as
\* claimed; an edit made over a corrupt store is never written.)
C8_WebhookSurvivesRestart ==
    [][boots' # boots =>
          \A tool \in Tool :
              entered[tool] # Undefined => appState'[tool].webhook = entered[tool]]_vars

\* The stored text is corrupt: not JSON, or JSON that is not an object
CorruptStore(text) ==
    \/ text.kind = "garbage"
    \/ text.kind = "json" /\ text.val.t # "obj"

\* The empty defaults of a tool's record
EmptyDefaults(tool) ==
    [k \in QueryFields(tool) \cup {"webhook", "result", "isLoading", "error", "rawResponse"} |->
        CASE k \in QueryFields(tool) \cup {"webhook"} -> JStr(<<>>)
          [] k = "isLoading" -> FALSE
          [] OTHER -> JNull]

\* C9: when the store is corrupt at startup, at the first start as at a
\* restart, the application starts with the empty defaults for every tool.
C9_CorruptStoreGivesDefaults ==
    /\ CorruptStore(storage) => appState = [tool \in Tool |-> EmptyDefaults(tool)]
    /\ [][(boots' # boots /\ CorruptStore(storage')) =>
              appState' = [tool \in Tool |-> EmptyDefaults(tool)]]_vars

\* C9 witness: the application has been restarted over a corrupt store after
\* the user typed a webhook, and every tool has the empty defaults
C9_Witness ==
    /\ boots > 0
    /\ CorruptStore(storage)
    /\ \E tool \in Tool : entered[tool] = JStr(<<"b">>)
    /\ appState = [tool \in Tool |-> EmptyDefaults(tool)]

\* Everything of a tool's record but the webhook is at its default
VolatileAtDefault(rec, tool) ==
    \A k \in DOMAIN rec : k # "webhook" => rec[k] = EmptyDefaults(tool)[k]

\* C10: the store changes only in a step that changes a tool's webhook (an
\* update without a webhook field leaves it alone), and a restart puts every
\* tool's query fields, result, error, rawResponse and isLoading back at
\* their defaults.
C10_OnlyWebhooksDurable ==
    [][/\ storage' # storage =>
            /\ boots' = boots
            /\ \E tool \in Tool : appState'[tool].webhook # appState[tool].webhook
       /\ boots' # boots =>
            \A tool \in Tool : VolatileAtDefault(appState'[tool], tool)]_vars

\* C10 witness: after a submit and a restart a stored webhook is back and all
\* the rest is at its default
C10_Witness ==
    /\ boots > 0
    /\ TotalIssued > 0
    /\ storage.kind = "json" /\ storage.val.t = "obj"
    /\ \A tool \in Tool : VolatileAtDefault(appState[tool], tool)
    /\ \E tool \in Tool : appState[tool].webhook = JStr(<<"b">>)

\* The step touches the tool: a field of the shown tool is edited, a submit of
\* the tool starts, or a request of the tool moves on or ends
Touched(tool) ==
    \/ edits' # edits /\ tool = activeTool
    \/ issued'[tool] # issued[tool]
    \/ inflight'[tool] # inflight[tool]

\* C11: tools are isolated. A step of the running page changes the record of
\* at most one tool, and only of the tool on whose behalf the update is made
\* (its field edit, its submit start, the completion of its request, also
\* while another tool is shown or in flight); switching the active tool
\* changes no record.
C11_ToolsIsolated ==
    [][boots' = boots =>
          /\ \A tool \in Tool : ~Touched(tool) => appState'[tool] = appState[tool]
          /\ \A t1, t2 \in Tool :
                (appState'[t1] # appState[t1] /\ appState'[t2] # appState[t2]) => t1 = t2
          /\ activeTool' # activeTool => appState' = appState]_vars

\* C11 witness: a tool's request completed with a result while another tool,
\* still waiting for its own response, was shown
C11_Witness ==
    \E t1, t2 \in Tool :
        /\ t1 # t2 /\ activeTool = t2
        /\ delivered[t1].kind = "data" /\ appState[t1].result # JNull
        /\ inflight[t2] # <<>> /\ appState[t2].isLoading
        /\ appState[t2].result = JNull /\ appState[t2].rawResponse = JNull

\* C12 as claimed: when no request of the tool is in flight, its result is
\* the parsed result of the most recent submit of that tool that succeeded
\* (null only if none has succeeded). (A later submit that fails leaves null.)
C12_ResultIsLastSuccess ==
    \A tool \in Tool :
        inflight[tool] = <<>> => appState[tool].result = lastSuccess[tool]

\* C12, amended: when no request of the tool is in flight, its result is the
\* parsed result of the tool's most recent accepted submit if that submit
\* succeeded, and null otherwise (none accepted yet, or the latest one failed).
C12_ResultIsLatestSubmits ==
    \A tool \in Tool :
        inflight[tool] = <<>> =>
            appState[tool].result =
                IF delivered[tool].kind = "data" /\ Validate(tool, delivered[tool].data).ok
                THEN Validate(tool, delivered[tool].data).result
                ELSE JNull

\* C12 witness: a submit of the tool succeeded, a later one failed, and the
\* result is null
C12_Witness ==
    \E tool \in Tool :
        /\ inflight[tool] = <<>>
        /\ lastSuccess[tool] # JNull
        /\ FailedDelivery(tool)
        /\ appState[tool].result = JNull

\* C13: rawResponse is null from the moment a submit is accepted, equals the
\* parsed body once a 2xx response with a JSON body has arrived (whether or
\* not its shape is then accepted), and stays null when fetch rejects, the
\* status is not 2xx, or the body is not JSON.
C13_RawResponseIsLatestBody ==
    \A tool \in Tool :
        appState[tool].rawResponse =
            IF delivered[tool].kind = "data" THEN delivered[tool].data ELSE JNull

\* C13 witness: a body whose shape was rejected is kept as rawResponse next to
\* the error message
C13_Witness ==
    \E tool \in Tool :
        /\ delivered[tool].kind = "data" /\ ~Validate(tool, delivered[tool].data).ok
        /\ appState[tool].rawResponse = delivered[tool].data
        /\ appState[tool].rawResponse # JNull
        /\ appState[tool].error # JNull /\ appState[tool].result = JNull

\* A value of the declared type number | sentinel
IsRankOr(v, sentinel) == IsNumberValue(v) \/ v = JStr(<<sentinel>>)

\* C14 as claimed: for every response the Rank Tracker accepted, a rank of 0
\* is shown as 'Not Found' (current) or 'N/A' (previous) and any other rank as
\* sent, and the stored result has the declared type: each rank is a number
\* or its sentinel. (A response with a rank that is no number is accepted.)
C14_RanksMappedAndTyped ==
    LET d == delivered[RankTracker]
        result == appState[RankTracker].result
    IN  (d.kind = "data" /\ Validate(RankTracker, d.data).ok) =>
            LET responseData == Index0(d.data)
                current == OptProp(responseData, "current_rank")
                previous == OptProp(responseData, "previous_rank")
            IN  /\ result.v["Current Rank"] =
                      IF current = JNum(0) THEN JStr(<<"Not Found">>) ELSE current
                /\ result.v["Previous Rank"] =
                      IF previous = JNum(0) THEN JStr(<<"N/A">>) ELSE previous
                /\ IsRankOr(result.v["Current Rank"], "Not Found")
                /\ IsRankOr(result.v["Previous Rank"], "N/A")

\* C19: through the user interface, a tool that is not loading never has a
\* result and an error together: an error belongs to the tool's latest
\* submit, which failed, and the result is then null.
C19_ResultOrError ==
    \A tool \in Tool :
        (~appState[tool].isLoading /\ appState[tool].error # JNull) =>
            /\ appState[tool].result = JNull
            /\ FailedDelivery(tool)

\* C19 witness: the tool's latest submit, its second, was rejected for the
\* shape of the body: the error is shown without a result
C19_Witness ==
    \E tool \in Tool :
        /\ ~appState[tool].isLoading
        /\ accepted[tool] > 1 /\ delivered[tool].kind = "data"
        /\ appState[tool].error # JNull /\ appState[tool].result = JNull
        /\ appState[tool].rawResponse # JNull

\* C18: a call of a tool's submit handler while its webhook or a required
\* query field is empty issues no request, sets error to the tool's
\* 'required' message, and leaves every other field of the record, the other
\* tools' records and the store as they were.
C18_EmptyFieldOnlySetsError ==
    [][\A tool \in Tool :
          (calls' # calls /\ tool = activeTool) =>
              /\ inflight' = inflight /\ issued' = issued
              /\ appState'[tool].error = RequiredMessage(tool)
              /\ DOMAIN appState'[tool] = DOMAIN appState[tool]
              /\ \A k \in DOMAIN appState[tool] \ {"error"} :
                    appState'[tool][k] = appState[tool][k]
              /\ \A other \in Tool \ {tool} : appState'[other] = appState[other]
              /\ storage' = storage]_vars

\* C18 witness: a handler was called with an emptied field while the tool
\* held a result, and the record shows the 'required' message next to it
C18_Witness ==
    \E tool \in Tool :
        /\ calls > 0
        /\ GuardFails(appState[tool], tool)
        /\ appState[tool].error = RequiredMessage(tool)
        /\ appState[tool].result # JNull
        /\ ~appState[tool].isLoading

\* C15 as claimed: while the Blog Post Writer is shown, a non-null result is
\* displayed in the generated-post card, the article content being the result
\* with every style block removed and the injected CSS the bodies of those
\* blocks; with a null result content and styles are empty and the RTL flag
\* is false. (A result made of style blocks only leaves no content and no
\* card; the content is also trimmed.)
C15_ContentFollowsResult ==
    LET result == appState[BlogPostWriter].result
    IN  activeTool = BlogPostWriter =>
            /\ result # JNull =>
                  /\ blog.blogContent = ReplaceStyles(result.v)
                  /\ blog.blogStyles = RemoveStyleTags(Join(StyleMatch(result.v), "\n"))
                  /\ CardShown(result, blog)
            /\ result = JNull =>
                  /\ blog.blogContent = <<>> /\ blog.blogStyles = <<>>
                  /\ blog.isRtl = FALSE

\* How many writes of the kind are pending
Count(pending, kind) == Len(SelectSeq(pending, LAMBDA k : k = kind))

\* The step is a click on the copy button
CopyStep == clip'.clicks # clip.clicks

\* The step settles a clipboard write of the mounted component
SettleStep ==
    /\ clip'.clicks = clip.clicks
    /\ StaysMounted
    /\ Len(clip'.pending) < Len(clip.pending)

\* The rich-text copy fails in this step: the click starts no rich-text
\* write, or a rich-text write is rejected
RichCopyFails ==
    \/ CopyStep /\ Count(clip'.pending, "html") = Count(clip.pending, "html")
    \/ /\ SettleStep
       /\ Count(clip'.pending, "html") < Count(clip.pending, "html")
       /\ clip'.timers = clip.timers

\* C16 as claimed: a step in which the rich-text copy fails starts a
\* plain-text copy; a step in which a copy succeeds sets copied, and copied is
\* reset afterwards (a reset timer is pending whenever copied is set); with an
\* empty blogContent no write is started. (A rejected rich-text write has no
\* handler, and without navigator.clipboard the fallback throws as well.)
C16_CopyFallsBack ==
    /\ [](blog.copied => clip.timers > 0)
    /\ [][/\ RichCopyFails => Count(clip'.pending, "text") > Count(clip.pending, "text")
          /\ (SettleStep /\ clip'.timers > clip.timers) => blog'.copied
          /\ blog.blogContent = <<>> => Len(clip'.pending) <= Len(clip.pending)]_vars

\* The piece at position k of the HTML is inside a generated code element
InsideCode(out, k) ==
    \E i \in 1..(k - 1) :
        /\ out[i] = "<code>"
        /\ \A j \in (i + 1)..(k - 1) : out[j] # "</code>"
        /\ out[k] # "</code>"

\* The text has a pair of backticks on one line
HasCodeSpan(text) ==
    \E i, j \in DOMAIN text :
        /\ i < j /\ text[i] = Backtick /\ text[j] = Backtick
        /\ \A k \in (i + 1)..(j - 1) : text[k] # "\n"

\* C17 as claimed: in what parseMarkdown returns, the content of a code span
\* stands inside <code>...</code>, none of & < > " ' is left unescaped there,
\* and the content has produced no markup. (Bold is rendered after the code
\* spans and over them.)
C17_CodeSpansAreLiteral ==
    html # Undefined =>
        /\ HasCodeSpan(markdown.v) => \E k \in DOMAIN html.v : html.v[k] = "<code>"
        /\ \A k \in DOMAIN html.v :
              InsideCode(html.v, k) =>
                  html.v[k] \notin {"&", "<", ">", "\"", "'",
                                    "<strong>", "</strong>", "<br />", "<code>"}

====
